---------------------------- MODULE Spec2Model ----------------------------
(* ALTmotion ver. 0.1: the per-frame motion analysis callback              *)
(* (mmotion.analyse) and the time-slice loop that starts and stops the     *)
(* capture and writes the slice's logs.                                    *)
(*                                                                         *)
(* The main thread runs the time-slice loop; the camera's encoder thread   *)
(* calls analyse once per frame while a recording is running.              *)
EXTENDS Integers, Sequences, FiniteSets

VARIABLES
    pc,                          \* position of the main thread in the loop
    slice,                       \* number of loop iterations begun (t + 1)
    recording,                   \* the camera is recording (between start_ and stop_recording)
    clock,                       \* time.time(), in ticks
    motionDetectionThreshold,    \* configured threshold
    sSADs,
    motionEstimates,
    motionDetectionTimes,
    motionDetectionFrameNumbers,
    currentFrame,
    sSADsfile,
    motionEstimateFile,
    motionDetectionTimesFile,
    a,                           \* the grid under analysis (PureSpec); <<>> in Spec
    located,                     \* the locals of the detection branch of the call under
                                 \* analysis (PureSpec); they are dropped on return: <<>> in Spec
    delivered                    \* history: what each analyse call of this slice saw and computed

series == <<sSADs, motionEstimates, motionDetectionTimes, motionDetectionFrameNumbers>>
files == <<sSADsfile, motionEstimateFile, motionDetectionTimesFile>>
vars == <<pc, slice, recording, clock, motionDetectionThreshold, sSADs, motionEstimates,
          motionDetectionTimes, motionDetectionFrameNumbers, currentFrame,
          sSADsfile, motionEstimateFile, motionDetectionTimesFile, a, located, delivered>>

---------------------------------------------------------------------------
(* Bounds of the model *)

\* rows of the macroblock grid (45 for 1280x720)
Rows == 2
\* columns of the macroblock grid (81 for 1280x720)
columnsPerRow == 2
\* number of time slices of a run: int(experimentDurationHours*60/timeSliceDurationMinutes)
NumSlices == 2
\* most frames the camera delivers during one slice: the slice's duration in frame
\* periods (timeSliceDurationMinutes * 60 * camera.framerate)
MaxFrames == 2
\* most macroblocks that carry motion (the others are all-zero) in a grid of PureSpec
MaxMotionBlocks == 2
\* most macroblocks that carry motion in a frame delivered during a slice (Spec)
MaxFrameMotionBlocks == 1

---------------------------------------------------------------------------
(* Inputs *)

ZeroBlock == [x |-> 0, y |-> 0, sad |-> 0]

\* macroblocks {x: int8, y: int8, sad: uint16}
FrameBlocks ==
    { [x |-> -20,  y |-> 20,   sad |-> 10],
      [x |-> 5,    y |-> -50,  sad |-> 20],
      [x |-> -128, y |-> 0,    sad |-> 65535] }

MotionBlocks ==
    FrameBlocks \cup
    { [x |-> 127,  y |-> -128, sad |-> 65535],
      [x |-> 20,   y |-> 0,    sad |-> 40] }

Thresholds == {-1, 0, 40, 1000}

Cells == (1..Rows) \X (1..columnsPerRow)

GridOf(S, f) ==
    [r \in 1..Rows |-> [c \in 1..columnsPerRow |->
        IF <<r, c>> \in S THEN f[<<r, c>>] ELSE ZeroBlock]]

\* the Rows x columnsPerRow grids with at most k macroblocks of `blocks`, the rest zero
GridsOver(blocks, k) ==
    UNION { { GridOf(S, f) : f \in [S -> blocks] } :
            S \in { T \in SUBSET Cells : Cardinality(T) <= k } }

Grids == GridsOver(MotionBlocks, MaxMotionBlocks)

Frames == GridsOver(FrameBlocks, MaxFrameMotionBlocks)

ZeroGrid == GridOf({}, <<>>)

---------------------------------------------------------------------------
(* numpy arithmetic *)

\* a value of int8
Int8(n) == ((n + 128) % 256) - 128

\* a['x'], a['y'], a['sad']: the 2-D array of one field
Field(g, name) ==
    [r \in 1..Len(g) |-> [c \in 1..Len(g[r]) |->
        CASE name = "x" -> g[r][c].x
          [] name = "y" -> g[r][c].y
          [] name = "sad" -> g[r][c].sad]]

\* the array flattened in row-major order
RECURSIVE Flatten(_)
Flatten(arr) == IF arr = <<>> THEN <<>> ELSE Head(arr) \o Flatten(Tail(arr))

RECURSIVE SumSeq(_)
SumSeq(s) == IF s = <<>> THEN 0 ELSE Head(s) + SumSeq(Tail(s))

NpSumInElementType(arr) == SumSeq(Flatten(arr)) % 65536

\* np.sum of an integer array. The elements are added in numpy's default integer of
\* the array's signedness (np.uint for uint16, np.int_ for int8: 32 bits or more), not
\* in the element type; no sum over a 45 x 81 grid leaves its range
\* (45 * 81 * 65535 < 2^31), so the accumulator is an unbounded integer here.
NpSum(arr) == SumSeq(Flatten(arr))

NpAbsoluteMissing(arr) == arr

\* np.absolute of an int8 array: the result is int8 too
NpAbsolute(arr) ==
    [r \in 1..Len(arr) |-> [c \in 1..Len(arr[r]) |->
        Int8(IF arr[r][c] < 0 THEN -arr[r][c] ELSE arr[r][c])]]

SSAD(g) == NpSum(Field(g, "sad"))
Xabs(g) == NpAbsolute(Field(g, "x"))
Yabs(g) == NpAbsolute(Field(g, "y"))
XabsSum(g) == NpSum(Xabs(g))
YabsSum(g) == NpSum(Yabs(g))
MotionEstimate(g) == XabsSum(g) + YabsSum(g)

MotionDetectedOrEqual(motionEstimate, threshold) == motionEstimate >= threshold

\* if motionEstimate > motionDetectionThreshold:
MotionDetected(motionEstimate, threshold) == motionEstimate > threshold

DetectionTimesOverwritten(detected, times, now) ==
    IF detected THEN <<now>> ELSE times

\* motionDetectionTimes after the detection branch
DetectionTimesAfter(detected, times, now) ==
    IF detected THEN Append(times, now) ELSE times

FrameNumbersAppendedAlways(detected, numbers, frame) == Append(numbers, frame)

FrameNumbersCountedFirst(detected, numbers, frame) ==
    IF detected THEN Append(numbers, frame + 1) ELSE numbers

\* motionDetectionFrameNumbers after the detection branch
DetectionFrameNumbersAfter(detected, numbers, frame) ==
    IF detected THEN Append(numbers, frame) ELSE numbers

NextFrameOnDetection(frame, detected) == IF detected THEN frame + 1 ELSE frame

NextFrameStuck(frame, detected) == frame

\* currentFrame += 1, after and outside the detection branch
NextFrame(frame, detected) == frame + 1

FirstFrameFromZero == 1 - 1

\* currentFrame = 1 at the start of a slice
FirstFrame == 1

---------------------------------------------------------------------------
(* str() and the lines of the log files *)

Digit == <<"0", "1", "2", "3", "4", "5", "6", "7", "8", "9">>

RECURSIVE StrNat(_)
StrNat(n) == IF n < 10 THEN <<Digit[n + 1]>>
             ELSE Append(StrNat(n \div 10), Digit[(n % 10) + 1])

\* str(n) of an integer, as its sequence of characters
Str(n) == IF n < 0 THEN <<"-">> \o StrNat(-n) ELSE StrNat(n)

\* str(label) + ": " + str(value) + "\n"
Line(label, value) == Str(label) \o <<":", " ">> \o Str(value) \o <<"\n">>

OpenFile == [open |-> TRUE, written |-> <<>>]
NoFile == [open |-> FALSE, written |-> <<>>]

WriteIndexedFromZero(file, values) ==
    [file EXCEPT !.written = @ \o [i \in 1..Len(values) |-> Line(i - 1, values[i])]]

\* for i in range(len(values)): file.write(str(i + 1) + ": " + str(values[i]) + "\n")
WriteIndexed(file, values) ==
    [file EXCEPT !.written = @ \o [i \in 1..Len(values) |-> Line(i, values[i])]]

\* for i in range(len(times)): file.write(str(numbers[i]) + ': ' + str(times[i]) + "\n")
WriteDetections(file, numbers, times) ==
    [file EXCEPT !.written = @ \o [i \in 1..Len(times) |-> Line(numbers[i], times[i])]]

---------------------------------------------------------------------------
(* The callback *)

RecordedSmoothed(value, previous) ==
    IF value = 0 /\ previous # <<>> THEN previous[Len(previous)] ELSE value

\* the value appended to sSADs (motionEstimates) for a frame: the frame's own value,
\* a zero of an I-frame included; the earlier entries play no part
Recorded(value, previous) == value

\* mmotion.analyse(a) on grid g
AnalyseBody(g) ==
    LET sSAD == SSAD(g)
        motionEstimate == MotionEstimate(g)
        detected == MotionDetected(motionEstimate, motionDetectionThreshold)
    IN  /\ sSADs' = Append(sSADs, Recorded(sSAD, sSADs))
        /\ motionEstimates' = Append(motionEstimates, Recorded(motionEstimate, motionEstimates))
        /\ motionDetectionTimes' = DetectionTimesAfter(detected, motionDetectionTimes, clock)
        /\ motionDetectionFrameNumbers' =
               DetectionFrameNumbersAfter(detected, motionDetectionFrameNumbers, currentFrame)
        /\ currentFrame' = NextFrame(currentFrame, detected)
        /\ clock' = clock + 1
        /\ delivered' = Append(delivered,
               [frame |-> currentFrame, sSAD |-> sSAD, motionEstimate |-> motionEstimate,
                detected |-> detected, time |-> clock])

\* int(index/columnsPerRow): true division, truncated; the index is never negative
RowFor(index) == index \div columnsPerRow

ColumnForUnscaled(index, row) == index - row

\* index - row*columnsPerRow
ColumnFor(index, row) == index - row * columnsPerRow

\* np.argmax: the 0-based index, in the flattened array, of the first largest element
ArgMax(arr) ==
    LET flat == Flatten(arr)
        first == CHOOSE i \in 1..Len(flat) :
                     /\ \A j \in 1..Len(flat) : flat[j] <= flat[i]
                     /\ \A j \in 1..(i - 1) : flat[j] < flat[i]
    IN  first - 1

\* the locals of the detection branch: the indices of the largest Xabs and Yabs and their
\* (row, column) positions; none when the branch is not taken
DetectionLocals(g, detected) ==
    IF ~detected THEN <<>>
    ELSE LET indexMaxXabs == ArgMax(Xabs(g))
             indexMaxYabs == ArgMax(Yabs(g))
             rowForMaxXabs == RowFor(indexMaxXabs)
             rowForMaxYabs == RowFor(indexMaxYabs)
         IN  << [indexMaxXabs |-> indexMaxXabs,
                 indexMaxYabs |-> indexMaxYabs,
                 rowForMaxXabs |-> rowForMaxXabs,
                 columnForMaxXabs |-> ColumnFor(indexMaxXabs, rowForMaxXabs),
                 rowForMaxYabs |-> rowForMaxYabs,
                 columnForMaxYabs |-> ColumnFor(indexMaxYabs, rowForMaxYabs)] >>

\* the encoder thread delivers one frame's motion data while the recording runs
Analyse ==
    /\ recording
    /\ Len(delivered) < MaxFrames
    /\ \E g \in Frames : AnalyseBody(g)
    /\ UNCHANGED <<pc, slice, recording, motionDetectionThreshold, files, a, located>>

---------------------------------------------------------------------------
(* The time-slice loop (main thread) *)

SliceInitKeepingSeries ==
    /\ pc = "loop"
    /\ slice < NumSlices
    /\ slice' = slice + 1
    /\ sSADsfile' = OpenFile
    /\ currentFrame' = FirstFrame
    /\ motionEstimateFile' = OpenFile
    /\ motionDetectionTimesFile' = OpenFile
    /\ delivered' = <<>>
    /\ pc' = "start"
    /\ UNCHANGED <<recording, clock, motionDetectionThreshold, series, a, located>>

\* loop head and time-slice initialisation
SliceInit ==
    /\ pc = "loop"
    /\ slice < NumSlices
    /\ slice' = slice + 1
    /\ sSADs' = <<>>
    /\ sSADsfile' = OpenFile
    /\ motionEstimates' = <<>>
    /\ motionDetectionTimes' = <<>>
    /\ motionDetectionFrameNumbers' = <<>>
    /\ currentFrame' = FirstFrame
    /\ motionEstimateFile' = OpenFile
    /\ motionDetectionTimesFile' = OpenFile
    /\ delivered' = <<>>
    /\ pc' = "start"
    /\ UNCHANGED <<recording, clock, motionDetectionThreshold, a, located>>

StartRecordingEarly ==
    /\ pc \in {"loop", "start"}
    /\ ~recording
    /\ recording' = TRUE
    /\ pc' = IF pc = "start" THEN "wait" ELSE pc
    /\ UNCHANGED <<slice, clock, motionDetectionThreshold, series, currentFrame, files,
                   a, located, delivered>>

StartRecording ==
    /\ pc = "start"
    /\ recording' = TRUE
    /\ pc' = "wait"
    /\ UNCHANGED <<slice, clock, motionDetectionThreshold, series, currentFrame, files,
                   a, located, delivered>>

WaitWithoutStop ==
    /\ pc = "wait"
    /\ clock' = slice * MaxFrames
    /\ pc' = "flushSADs"
    /\ UNCHANGED <<slice, recording, motionDetectionThreshold, series, currentFrame, files,
                   a, located, delivered>>

\* wait_recording returns when the slice's duration (MaxFrames frame periods) has
\* passed, and the recording is stopped
StopRecording ==
    /\ pc = "wait"
    /\ clock' = slice * MaxFrames
    /\ recording' = FALSE
    /\ pc' = "flushSADs"
    /\ UNCHANGED <<slice, motionDetectionThreshold, series, currentFrame, files,
                   a, located, delivered>>

FlushSADs ==
    /\ pc = "flushSADs"
    /\ sSADsfile' = WriteIndexed(sSADsfile, sSADs)
    /\ pc' = "flushMotionEstimates"
    /\ UNCHANGED <<slice, recording, clock, motionDetectionThreshold, series, currentFrame,
                   motionEstimateFile, motionDetectionTimesFile, a, located, delivered>>

FlushMotionEstimates ==
    /\ pc = "flushMotionEstimates"
    /\ motionEstimateFile' = WriteIndexed(motionEstimateFile, motionEstimates)
    /\ pc' = "flushDetections"
    /\ UNCHANGED <<slice, recording, clock, motionDetectionThreshold, series, currentFrame,
                   sSADsfile, motionDetectionTimesFile, a, located, delivered>>

FlushDetections ==
    /\ pc = "flushDetections"
    /\ motionDetectionTimesFile' =
           WriteDetections(motionDetectionTimesFile, motionDetectionFrameNumbers,
                           motionDetectionTimes)
    /\ pc' = "close"
    /\ UNCHANGED <<slice, recording, clock, motionDetectionThreshold, series, currentFrame,
                   sSADsfile, motionEstimateFile, a, located, delivered>>

CloseFilesButOne ==
    /\ pc = "close"
    /\ sSADsfile' = [sSADsfile EXCEPT !.open = FALSE]
    /\ motionEstimateFile' = [motionEstimateFile EXCEPT !.open = FALSE]
    /\ pc' = "loop"
    /\ UNCHANGED <<slice, recording, clock, motionDetectionThreshold, series, currentFrame,
                   motionDetectionTimesFile, a, located, delivered>>

CloseFiles ==
    /\ pc = "close"
    /\ sSADsfile' = [sSADsfile EXCEPT !.open = FALSE]
    /\ motionEstimateFile' = [motionEstimateFile EXCEPT !.open = FALSE]
    /\ motionDetectionTimesFile' = [motionDetectionTimesFile EXCEPT !.open = FALSE]
    /\ pc' = "loop"
    /\ UNCHANGED <<slice, recording, clock, motionDetectionThreshold, series, currentFrame,
                   a, located, delivered>>

\* the loop is exhausted
Finish ==
    /\ pc = "loop"
    /\ slice = NumSlices
    /\ pc' = "done"
    /\ UNCHANGED <<slice, recording, clock, motionDetectionThreshold, series, currentFrame,
                   files, a, located, delivered>>

---------------------------------------------------------------------------

Init ==
    /\ pc = "loop"
    /\ slice = 0
    /\ recording = FALSE
    /\ clock = 0
    /\ motionDetectionThreshold \in Thresholds
    /\ sSADs = <<>>
    /\ motionEstimates = <<>>
    /\ motionDetectionTimes = <<>>
    /\ motionDetectionFrameNumbers = <<>>
    /\ currentFrame = 1
    /\ sSADsfile = NoFile
    /\ motionEstimateFile = NoFile
    /\ motionDetectionTimesFile = NoFile
    /\ a = <<>>
    /\ located = <<>>
    /\ delivered = <<>>

Next ==
    \/ SliceInit
    \/ StartRecording
    \/ Analyse
    \/ StopRecording
    \/ FlushSADs
    \/ FlushMotionEstimates
    \/ FlushDetections
    \/ CloseFiles
    \/ Finish

Spec == Init /\ [][Next]_vars

\* the steps of the main thread
MainThread ==
    \/ SliceInit
    \/ StartRecording
    \/ StopRecording
    \/ FlushSADs
    \/ FlushMotionEstimates
    \/ FlushDetections
    \/ CloseFiles
    \/ Finish

\* the main thread keeps running: every call it makes returns (wait_recording after the
\* slice's duration), and its loops are bounded
FairSpec == Spec /\ WF_vars(MainThread)

---------------------------------------------------------------------------
(* One call of analyse on a given grid: the first frame of the first slice *)

PureInit ==
    /\ pc = "wait"
    /\ slice = 1
    /\ recording = TRUE
    /\ clock = 0
    /\ motionDetectionThreshold \in Thresholds
    /\ sSADs = <<>>
    /\ motionEstimates = <<>>
    /\ motionDetectionTimes = <<>>
    /\ motionDetectionFrameNumbers = <<>>
    /\ currentFrame = FirstFrame
    /\ sSADsfile = OpenFile
    /\ motionEstimateFile = OpenFile
    /\ motionDetectionTimesFile = OpenFile
    /\ a \in Grids
    /\ located = <<>>
    /\ delivered = <<>>

AnalyseGrid ==
    /\ recording
    /\ delivered = <<>>
    /\ AnalyseBody(a)
    /\ located' = DetectionLocals(a, MotionDetected(MotionEstimate(a), motionDetectionThreshold))
    /\ UNCHANGED <<pc, slice, recording, motionDetectionThreshold, files, a>>

PureNext == AnalyseGrid

PureSpec == PureInit /\ [][PureNext]_vars

---------------------------------------------------------------------------
(* Properties *)

\* this step is an invocation of analyse
AnalyseStep == Len(delivered') = Len(delivered) + 1

\* this step starts a new time slice
NewSliceStep == slice' = slice + 1

Last(s) == s[Len(s)]

\* the frames of the slice so far whose motionEstimate exceeds the threshold
DetectingFrames ==
    { k \in 1..Len(motionEstimates) : motionEstimates[k] > motionDetectionThreshold }

\* C1: within a slice every invocation of analyse increases currentFrame by exactly 1,
\* whether or not a detection fires, and every new slice starts with currentFrame = 1;
\* so currentFrame = k before the k-th call of a slice and k + 1 after it.
C1_FrameCounter ==
    /\ [](slice >= 1 => currentFrame = Len(delivered) + 1)
    /\ [][AnalyseStep => currentFrame' = currentFrame + 1]_vars
    /\ [][NewSliceStep => currentFrame' = 1]_vars

\* the second call of the second slice has run, without a detection
C1_Witness ==
    /\ slice = 2
    /\ Len(delivered) = 2
    /\ currentFrame = 3
    /\ motionDetectionTimes = <<>>

\* C2: after n analyse calls in a slice, sSADs and motionEstimates have length
\* n = currentFrame - 1, and motionDetectionTimes and motionDetectionFrameNumbers both have
\* as many entries as frames whose motionEstimate exceeded the threshold (none after
\* frames without detection).
C2_SeriesLengths ==
    slice >= 1 =>
        /\ Len(sSADs) = Len(delivered)
        /\ Len(motionEstimates) = Len(delivered)
        /\ Len(delivered) = currentFrame - 1
        /\ Len(motionDetectionTimes) = Cardinality(DetectingFrames)
        /\ Len(motionDetectionFrameNumbers) = Cardinality(DetectingFrames)

\* two frames analysed, one of them a detection
C2_Witness ==
    /\ Len(sSADs) = 2
    /\ Len(motionEstimates) = 2
    /\ Len(motionDetectionTimes) = 1
    /\ Len(motionDetectionFrameNumbers) = 1

\* C3: analyse appends one entry to motionDetectionTimes and one to
\* motionDetectionFrameNumbers if and only if the frame's motionEstimate is strictly
\* greater than motionDetectionThreshold; otherwise (equality included) it leaves both
\* unchanged.
C3_DetectionIffAboveThreshold ==
    [][AnalyseStep =>
        IF Last(motionEstimates') > motionDetectionThreshold
        THEN /\ Len(motionDetectionTimes') = Len(motionDetectionTimes) + 1
             /\ Len(motionDetectionFrameNumbers') = Len(motionDetectionFrameNumbers) + 1
        ELSE /\ motionDetectionTimes' = motionDetectionTimes
             /\ motionDetectionFrameNumbers' = motionDetectionFrameNumbers]_vars

\* a frame whose motionEstimate equals a positive threshold was analysed: no detection
C3_Witness ==
    /\ Len(motionEstimates) = 1
    /\ motionEstimates[1] = motionDetectionThreshold
    /\ motionDetectionThreshold > 0
    /\ motionDetectionTimes = <<>>
    /\ motionDetectionFrameNumbers = <<>>

\* the mathematical absolute value
Abs(v) == IF v < 0 THEN -v ELSE v

\* the mathematical sum of f over the macroblocks of grid g
RECURSIVE SumOver(_, _, _)
SumOver(g, f(_), cells) ==
    IF cells = {} THEN 0
    ELSE LET c == CHOOSE d \in cells : TRUE
         IN  f(g[c[1]][c[2]]) + SumOver(g, f, cells \ {c})

CellsOf(g) == { <<r, c>> \in (1..Len(g)) \X (1..columnsPerRow) : c <= Len(g[r]) }

AbsX(m) == Abs(m.x)
AbsY(m) == Abs(m.y)
Sad(m) == m.sad

\* the two row-halves of a grid
TopRows(g) == SubSeq(g, 1, Len(g) \div 2)
BottomRows(g) == SubSeq(g, (Len(g) \div 2) + 1, Len(g))

\* analyse has run on grid a (PureSpec)
Analysed == Len(delivered) = 1

\* C4: for any grid over the signed 8-bit domain, -128 included, the motionEstimate that
\* analyse appends is the mathematical sum of |x| plus the sum of |y| over all macroblocks.
C4_MotionEstimateIsSumOfAbs ==
    Analysed =>
        motionEstimates[1] = SumOver(a, AbsX, CellsOf(a)) + SumOver(a, AbsY, CellsOf(a))

\* C5: the sSAD that analyse appends is the exact, non-wrapping sum of the uint16 sad
\* fields over every macroblock, and the sSAD of a grid is the sum of the sSADs of its two
\* row-halves.
C5_SSADExactAndAdditive ==
    Analysed =>
        /\ sSADs[1] = SumOver(a, Sad, CellsOf(a))
        /\ sSADs[1] = SSAD(TopRows(a)) + SSAD(BottomRows(a))

\* analyse has run on a grid whose sad sum does not fit 16 bits, with sad in both halves
C5_Witness ==
    /\ Analysed
    /\ sSADs[1] > 65535
    /\ SSAD(TopRows(a)) > 0
    /\ SSAD(BottomRows(a)) > 0

\* C6: the numbers in motionDetectionFrameNumbers are the 1-based ordinals, within the
\* slice, of the detecting frames: every recorded k has motionEstimates[k] above the
\* threshold, and every k with motionEstimates[k] above the threshold is recorded exactly
\* once.
C6_FrameNumbersAreOrdinals ==
    slice >= 1 =>
        /\ \A i \in DOMAIN motionDetectionFrameNumbers :
               motionDetectionFrameNumbers[i] \in DetectingFrames
        /\ \A k \in DetectingFrames :
               Cardinality({ i \in DOMAIN motionDetectionFrameNumbers :
                                motionDetectionFrameNumbers[i] = k }) = 1

\* the second frame of a slice is a detection and the first is not
C6_Witness ==
    /\ Len(motionEstimates) = 2
    /\ motionEstimates[1] <= motionDetectionThreshold
    /\ motionEstimates[2] > motionDetectionThreshold
    /\ motionDetectionFrameNumbers = <<2>>

\* the main thread is writing the slice's logs, or about to close them
FlushPcs == {"flushSADs", "flushMotionEstimates", "flushDetections", "close"}

\* the slice's logs have been written
Flushed == slice >= 1 /\ pc \in {"close", "loop", "done"}

\* C7: the series are read and flushed only after the slice's capture was stopped, and no
\* analyse invocation happens between stop_recording and the next start_recording: while
\* the logs are written the series and the counter do not change, and what has been
\* written is the final contents of the series.
C7_FlushAfterStop ==
    /\ [](pc \in FlushPcs => ~recording)
    /\ [][AnalyseStep => pc = "wait"]_vars
    /\ [][(pc \in FlushPcs) => (series' = series /\ currentFrame' = currentFrame)]_vars
    /\ [](pc = "close" =>
            /\ sSADsfile = WriteIndexed(OpenFile, sSADs)
            /\ motionEstimateFile = WriteIndexed(OpenFile, motionEstimates)
            /\ motionDetectionTimesFile =
                   WriteDetections(OpenFile, motionDetectionFrameNumbers,
                                   motionDetectionTimes))

\* the flush of a slice with two frames is under way: the SADs log is written, the
\* others are not yet
C7_Witness ==
    /\ pc = "flushMotionEstimates"
    /\ ~recording
    /\ Len(sSADs) = 2
    /\ Len(sSADsfile.written) = 2
    /\ motionEstimateFile.written = <<>>

IsDetection(e) == e.detected

\* the detections among the frames delivered during this slice, in delivery order
Detections == SelectSeq(delivered, IsDetection)

\* C8: series are never shared across slices: a new slice starts with four empty series
\* and the counter at 1, the series hold exactly the entries of the frames delivered
\* during the current slice, and the files flushed for the slice hold one record for each
\* of these entries (none from an earlier slice, none lost).
C8_SeriesOwnedBySlice ==
    /\ [][NewSliceStep =>
            /\ sSADs' = <<>>
            /\ motionEstimates' = <<>>
            /\ motionDetectionTimes' = <<>>
            /\ motionDetectionFrameNumbers' = <<>>
            /\ currentFrame' = 1]_vars
    /\ [](slice >= 1 =>
            /\ sSADs = [i \in 1..Len(delivered) |-> delivered[i].sSAD]
            /\ motionEstimates = [i \in 1..Len(delivered) |-> delivered[i].motionEstimate]
            /\ motionDetectionTimes = [i \in 1..Len(Detections) |-> Detections[i].time]
            /\ motionDetectionFrameNumbers =
                   [i \in 1..Len(Detections) |-> Detections[i].frame])
    /\ [](Flushed =>
            /\ Len(sSADsfile.written) = Len(delivered)
            /\ Len(motionEstimateFile.written) = Len(delivered)
            /\ Len(motionDetectionTimesFile.written) = Len(Detections))

\* the second slice has been flushed: one frame, a detection
C8_Witness ==
    /\ slice = 2
    /\ pc = "close"
    /\ Len(delivered) = 1
    /\ Len(sSADsfile.written) = 1
    /\ Len(motionDetectionTimesFile.written) = 1

\* C9: at slice teardown the SADs log and the motionEstimate log hold one record per
\* analysed frame, in delivery order, the record of the frame analysed while
\* currentFrame = f being "f: <sSAD>" and "f: <motionEstimate>"; the detection-times log
\* holds one record "f: <time>" per detection and none for the other frames.
C9_LogRecords ==
    Flushed =>
        /\ sSADsfile.written =
               [i \in 1..Len(delivered) |-> Line(delivered[i].frame, delivered[i].sSAD)]
        /\ motionEstimateFile.written =
               [i \in 1..Len(delivered) |->
                   Line(delivered[i].frame, delivered[i].motionEstimate)]
        /\ motionDetectionTimesFile.written =
               [i \in 1..Len(Detections) |-> Line(Detections[i].frame, Detections[i].time)]

\* a slice of two frames, the second a detection, has been written: the detection log
\* holds the one record "2: <time>"
C9_Witness ==
    /\ pc = "close"
    /\ Len(motionEstimateFile.written) = 2
    /\ ~delivered[1].detected
    /\ motionDetectionTimesFile.written = <<Line(2, delivered[2].time)>>

\* analyse has run on the all-zero grid (PureSpec)
ZeroGridAnalysed == Analysed /\ a = ZeroGrid

\* what C10 says follows for the all-zero grid
ZeroGridOutcome ==
    /\ sSADs = <<0>>
    /\ motionEstimates = <<0>>
    /\ motionDetectionTimes = <<>>
    /\ motionDetectionFrameNumbers = <<>>
    /\ currentFrame = 2

\* C10 as stated: for an all-zero grid analyse appends sSAD = 0 and motionEstimate = 0,
\* records no detection and increments the frame counter by 1, for any integer
\* motionDetectionThreshold.
C10_AsStated == ZeroGridAnalysed => ZeroGridOutcome

\* C10 as amended: the same, for any motionDetectionThreshold >= 0.
C10_ZeroGrid ==
    (ZeroGridAnalysed /\ motionDetectionThreshold >= 0) => ZeroGridOutcome

\* analyse has run on the all-zero grid with the threshold at 0
C10_Witness == ZeroGridAnalysed /\ motionDetectionThreshold = 0

\* analyse has run on grid a and taken the detection branch (PureSpec)
DetectionLocated == Analysed /\ located # <<>>

\* C11: when a detection fires, the (row, column) computed from the flat index of the
\* largest Xabs satisfies row*columnsPerRow + column = index, 0 <= column < columnsPerRow
\* and row = floor(index / columnsPerRow), a row of the grid; likewise for Yabs.
C11_RowColumnOfIndex ==
    DetectionLocated =>
        LET l == located[1]
        IN  /\ l.rowForMaxXabs * columnsPerRow + l.columnForMaxXabs = l.indexMaxXabs
            /\ l.columnForMaxXabs \in 0..(columnsPerRow - 1)
            /\ l.rowForMaxXabs \in 0..(Len(a) - 1)
            /\ l.rowForMaxXabs * columnsPerRow <= l.indexMaxXabs
            /\ l.indexMaxXabs < (l.rowForMaxXabs + 1) * columnsPerRow
            /\ l.rowForMaxYabs * columnsPerRow + l.columnForMaxYabs = l.indexMaxYabs
            /\ l.columnForMaxYabs \in 0..(columnsPerRow - 1)
            /\ l.rowForMaxYabs \in 0..(Len(a) - 1)
            /\ l.rowForMaxYabs * columnsPerRow <= l.indexMaxYabs
            /\ l.indexMaxYabs < (l.rowForMaxYabs + 1) * columnsPerRow

\* a detection whose largest Xabs is in the last macroblock of the grid and whose largest
\* Yabs is in another row
C11_Witness ==
    /\ DetectionLocated
    /\ located[1].indexMaxXabs = Rows * columnsPerRow - 1
    /\ located[1].rowForMaxXabs = Rows - 1
    /\ located[1].columnForMaxXabs = columnsPerRow - 1
    /\ located[1].rowForMaxYabs # located[1].rowForMaxXabs

\* grid g with every x (every y) negated, as int8 values
NegatedX(g) ==
    [r \in 1..Len(g) |-> [c \in 1..Len(g[r]) |-> [g[r][c] EXCEPT !.x = Int8(-@)]]]
NegatedY(g) ==
    [r \in 1..Len(g) |-> [c \in 1..Len(g[r]) |-> [g[r][c] EXCEPT !.y = Int8(-@)]]]

\* C12: negating every x value of the grid, or every y value, leaves the motionEstimate
\* that analyse computes unchanged, and so the detection decision for the frame.
C12_NegationInvariant ==
    Analysed =>
        /\ MotionEstimate(NegatedX(a)) = motionEstimates[1]
        /\ MotionEstimate(NegatedY(a)) = motionEstimates[1]
        /\ MotionDetected(MotionEstimate(NegatedX(a)), motionDetectionThreshold)
               <=> delivered[1].detected
        /\ MotionDetected(MotionEstimate(NegatedY(a)), motionDetectionThreshold)
               <=> delivered[1].detected

\* analyse has detected motion in a grid that differs from both of its negations
C12_Witness ==
    /\ Analysed
    /\ delivered[1].detected
    /\ NegatedX(a) # a
    /\ NegatedY(a) # a
    /\ motionEstimates[1] > 0

\* the 0-based index of the first macroblock, in row-major order, with the largest
\* mathematical |v| in the 2-D array arr
FirstLargestAbs(arr) ==
    LET flat == Flatten(arr)
        first == CHOOSE i \in 1..Len(flat) :
                     /\ \A j \in 1..Len(flat) : Abs(flat[j]) <= Abs(flat[i])
                     /\ \A j \in 1..(i - 1) : Abs(flat[j]) < Abs(flat[i])
    IN  first - 1

\* C13: when a detection fires, the flat index located for x is that of the macroblock
\* with the largest true |x|, the first one in row-major order among ties, and likewise
\* for y, for every grid over the signed 8-bit domain, -128 included.
C13_ArgMaxOfTrueAbs ==
    DetectionLocated =>
        /\ located[1].indexMaxXabs = FirstLargestAbs(Field(a, "x"))
        /\ located[1].indexMaxYabs = FirstLargestAbs(Field(a, "y"))

\* sequence s with entries appended at its end, none removed or rewritten
Extends(s, t) == Len(s) <= Len(t) /\ SubSeq(t, 1, Len(s)) = s

\* C14: an analyse invocation changes only the slice's four series and the frame counter:
\* it only appends to the series, writes to none of the slice's files, leaves the main
\* thread and the configuration alone, and on a frame without detection leaves
\* motionDetectionTimes and motionDetectionFrameNumbers unchanged.
C14_AnalyseFrame ==
    [][AnalyseStep =>
        /\ Extends(sSADs, sSADs')
        /\ Extends(motionEstimates, motionEstimates')
        /\ Extends(motionDetectionTimes, motionDetectionTimes')
        /\ Extends(motionDetectionFrameNumbers, motionDetectionFrameNumbers')
        /\ files' = files
        /\ <<pc, slice, recording, motionDetectionThreshold>>' =
               <<pc, slice, recording, motionDetectionThreshold>>
        /\ (~Last(delivered').detected =>
               /\ motionDetectionTimes' = motionDetectionTimes
               /\ motionDetectionFrameNumbers' = motionDetectionFrameNumbers)]_vars

\* two frames of a slice analysed: a detection, then a frame without one, and nothing
\* written to the open files
C14_Witness ==
    /\ Len(delivered) = 2
    /\ delivered[1].detected
    /\ ~delivered[2].detected
    /\ motionDetectionFrameNumbers = <<1>>
    /\ sSADsfile = OpenFile
    /\ motionEstimateFile = OpenFile
    /\ motionDetectionTimesFile = OpenFile

\* the three log files of the slice are closed and hold the slice's records
SliceClosed ==
    /\ ~sSADsfile.open
    /\ ~motionEstimateFile.open
    /\ ~motionDetectionTimesFile.open
    /\ Len(sSADsfile.written) = Len(sSADs)
    /\ Len(motionEstimateFile.written) = Len(motionEstimates)
    /\ Len(motionDetectionTimesFile.written) = Len(motionDetectionTimes)

\* a log file of the slice is open
SliceOpen == sSADsfile.open \/ motionEstimateFile.open \/ motionDetectionTimesFile.open

\* C15: every slice the loop creates is flushed and its three log files are closed at the
\* end of the same iteration, before the next slice is created and before the run ends;
\* no slice is open outside its iteration, and the run ends, after NumSlices slices.
C15_SliceLifecycle ==
    /\ [][NewSliceStep => (slice = 0 \/ SliceClosed)]_vars
    /\ []((pc = "loop" /\ slice >= 1) => SliceClosed)
    /\ [](pc = "done" => (slice = NumSlices /\ SliceClosed))
    /\ [](SliceOpen => (slice >= 1 /\ pc \in ({"start", "wait"} \cup FlushPcs)))
    /\ [](slice <= NumSlices)
    /\ <>(pc = "done")

\* the run has ended after the last slice, whose logs hold two frames and are closed
C15_Witness ==
    /\ pc = "done"
    /\ slice = NumSlices
    /\ Len(sSADsfile.written) = 2
    /\ ~SliceOpen

\* C16: the sSAD and motionEstimate appended for a frame are the values computed from that
\* frame's grid alone: a frame whose sSAD or motionEstimate is 0 (an I-frame) has 0
\* appended, never the previous nonzero value, and no earlier entry is touched.
C16_NoSmoothing ==
    [][AnalyseStep =>
        /\ Last(sSADs') = Last(delivered').sSAD
        /\ Last(motionEstimates') = Last(delivered').motionEstimate
        /\ (Last(delivered').sSAD = 0 => Last(sSADs') = 0)
        /\ (Last(delivered').motionEstimate = 0 => Last(motionEstimates') = 0)
        /\ SubSeq(sSADs', 1, Len(sSADs)) = sSADs
        /\ SubSeq(motionEstimates', 1, Len(motionEstimates)) = motionEstimates]_vars

\* an all-zero frame was analysed right after a frame with nonzero sSAD and motionEstimate
C16_Witness ==
    /\ Len(sSADs) = 2
    /\ sSADs[1] > 0
    /\ sSADs[2] = 0
    /\ motionEstimates[1] # 0
    /\ motionEstimates[2] = 0

\* the slice's series, counter and log files are initialised and its capture is running
SliceActive ==
    /\ slice >= 1
    /\ recording
    /\ pc = "wait"
    /\ sSADsfile.open /\ motionEstimateFile.open /\ motionDetectionTimesFile.open
    /\ currentFrame = Len(sSADs) + 1
    /\ Len(motionEstimates) = Len(sSADs)
    /\ Len(motionDetectionFrameNumbers) = Len(motionDetectionTimes)

\* C17: every analyse invocation happens while a slice is active, after the slice's series
\* and counter were initialised and before its capture is stopped; none happens before the
\* first slice is initialised, when the series and the counter do not exist yet.
C17_AnalyseInActiveSlice ==
    /\ [][AnalyseStep => SliceActive]_vars
    /\ [](recording => SliceActive)
    /\ [](slice = 0 => (~recording /\ delivered = <<>>))

\* the first frame of the first slice has been analysed and the capture still runs
C17_Witness ==
    /\ slice = 1
    /\ recording
    /\ Len(delivered) = 1
    /\ currentFrame = 2

\* C18: within a slice the recorded detection frame numbers are strictly increasing and lie
\* in 1..len(motionEstimates), and there is one for every entry of motionDetectionTimes;
\* so at flush time every detection record refers to a record of the motionEstimate log.
C18_FrameNumbersInRange ==
    slice >= 1 =>
        /\ \A i \in DOMAIN motionDetectionFrameNumbers :
               \A j \in DOMAIN motionDetectionFrameNumbers :
                   i < j => motionDetectionFrameNumbers[i] < motionDetectionFrameNumbers[j]
        /\ \A i \in DOMAIN motionDetectionFrameNumbers :
               motionDetectionFrameNumbers[i] \in 1..Len(motionEstimates)
        /\ DOMAIN motionDetectionTimes \subseteq DOMAIN motionDetectionFrameNumbers
        /\ (pc = "close" =>
               \A i \in DOMAIN motionDetectionTimes :
                   motionDetectionFrameNumbers[i] \in DOMAIN motionEstimateFile.written)

\* a slice with detections in both of its frames is flushed
C18_Witness ==
    /\ pc = "close"
    /\ motionDetectionFrameNumbers = <<1, 2>>
    /\ Len(motionDetectionTimesFile.written) = 2

===========================================================================
